---- MODULE Spec2Model ----
(***************************************************************************)
(* Consultation workbench of the clinic front end: the prescription       *)
(* line-item list, the fee aggregation, the consultation form, the        *)
(* patient history and the multi-step save sequence of ConsultationPage,  *)
(* with the zustand stores it uses, the api instance with its token       *)
(* refresh, the payment modal of BillingPage and maskPhone.                *)
(*                                                                         *)
(* Numbers are whole numbers: every price, dosage and amount that the     *)
(* inputs below can produce is an integer, so the JavaScript arithmetic   *)
(* on them is exact.  Text that the code parses (selling_price, the       *)
(* dosage box, the amount prompt) is a sequence of one-character strings  *)
(* and is parsed by parseFloat as modelled below.                         *)
(***************************************************************************)
EXTENDS Integers, Sequences, FiniteSets, TLC

VARIABLES
    currentPatient,         \* useConsultationStore.currentPatient
    currentRegistrationId,  \* useConsultationStore.currentRegistrationId
    notifications,          \* useNotificationStore.notifications
    queue,                  \* ConsultationPage state: queue
    queueFetches,           \* GET registrations/queue requests in flight
    saving,                 \* ConsultationPage state: saving
    prescriptionItems,      \* ConsultationPage state: prescriptionItems
    dispensingMethod,       \* ConsultationPage state: dispensingMethod
    externalPharmacies,     \* ConsultationPage state: externalPharmacies
    selectedPharmacy,       \* ConsultationPage state: selectedPharmacy
    additionalCharges,      \* ConsultationPage state: additionalCharges
    save,                   \* the saveConsultation invocation in flight
    completed,              \* backend: registrations marked completed
    consulted,              \* backend: registrations with a consultation record
    consultationForm,       \* ConsultationPage state: consultationForm
    historyRecords,         \* ConsultationPage state: historyRecords
    loadingHistory,         \* ConsultationPage state: loadingHistory
    historyFetches,         \* GET consultations (history) requests in flight
    allergy,                \* ConsultationPage state: showAllergyWarning, allergyMessage
    localStorage,           \* window.localStorage: access_token, refresh_token
    auth,                   \* useAuthStore: accessToken, refreshToken
    requests,               \* requests made through the api instance
    location,               \* window.location the page was sent to
    storeQueue,             \* useQueueStore.queue
    billing,                \* BillingPage state and its requests in flight
    mask,                   \* the last call of maskPhone: argument and outcome
    lastOp                  \* history: the handler that ran last

vars == << currentPatient, currentRegistrationId, notifications, queue,
           queueFetches, saving, prescriptionItems, dispensingMethod,
           externalPharmacies, selectedPharmacy, additionalCharges, save,
           completed, consulted, consultationForm, historyRecords,
           loadingHistory, historyFetches, allergy, localStorage, auth, requests,
           location, storeQueue, billing, mask, lastOp >>

storeVars == << currentPatient, currentRegistrationId >>
feeVars == << dispensingMethod, externalPharmacies, selectedPharmacy,
              additionalCharges >>
queueVars == << queue, queueFetches, completed, consulted >>
chartVars == << consultationForm, historyRecords, loadingHistory, historyFetches >>
authVars == << localStorage, auth, requests, location >>
otherVars == << storeQueue, billing, mask >>
pageVars == << storeVars, notifications, queueVars, saving, prescriptionItems,
               feeVars, save, chartVars, allergy >>
consultationVars == << storeVars, queueVars, saving, prescriptionItems, feeVars,
                       save, chartVars, allergy >>

(***************************************************************************)
(* Bounds of the model.                                                    *)
(***************************************************************************)
MaxItems == 2
MaxCharges == 1
MaxNotifications == 1
MaxFetches == 1
MaxRequests == 2
MaxQueue == 3
MaxPayments == 1
MaxPhoneLen == 8

\* JavaScript null where an id is expected; ids of the backend are positive,
\* and the code tests ids for truthiness (null and 0 are both falsy).
NULL == 0

\* currentPatient: null
NoPatient == [id |-> NULL, registration_id |-> NULL, allergies |-> << >>]

(***************************************************************************)
(* parseFloat on the strings the page parses: optional sign, then the      *)
(* longest prefix of decimal digits; NaN when there is no digit.           *)
(***************************************************************************)
DigitChars == << "0", "1", "2", "3", "4", "5", "6", "7", "8", "9" >>

IsDigit(c) == \E i \in 1..10 : DigitChars[i] = c

DigitValue(c) == (CHOOSE i \in 1..10 : DigitChars[i] = c) - 1

RECURSIVE DigitPrefixLen(_)
DigitPrefixLen(s) ==
    IF s = << >> \/ ~IsDigit(Head(s)) THEN 0 ELSE 1 + DigitPrefixLen(Tail(s))

RECURSIVE DigitsValue(_, _)
DigitsValue(s, acc) ==
    IF s = << >> THEN acc
    ELSE DigitsValue(Tail(s), 10 * acc + DigitValue(Head(s)))

parseFloat(s) ==
    LET signed == s # << >> /\ Head(s) \in {"-", "+"}
        body == IF signed THEN Tail(s) ELSE s
        n == DigitPrefixLen(body)
        magnitude == DigitsValue(SubSeq(body, 1, n), 0)
    IN  IF n = 0 THEN [nan |-> TRUE, val |-> 0]
        ELSE [nan |-> FALSE,
              val |-> IF signed /\ Head(s) = "-" THEN 0 - magnitude
                      ELSE magnitude]

\* JavaScript `x || 0` on a number: NaN and 0 are falsy.
OrZero(x) == IF x.nan \/ x.val = 0 THEN 0 ELSE x.val

(***************************************************************************)
(* Data served by the backend (the inputs of the handlers).                *)
(***************************************************************************)
\* medicines.search results: one in stock with a numeric price, one out of
\* stock whose price text is not a number.
MedicineResults ==
    { [id |-> 1, name |-> << "A", "b" >>, selling_price |-> << "1", "0" >>,
       current_stock |-> 5],
      [id |-> 2, name |-> << "c" >>, selling_price |-> << "n", "a" >>,
       current_stock |-> 0] }

\* experience formulas: items carry medicine_id and dosage.
ExperienceFormulas ==
    { [id |-> 1, items |-> << [medicine_id |-> 1, dosage |-> 2] >>],
      [id |-> 2, items |-> << [medicine_id |-> 2, dosage |-> 2],
                              [medicine_id |-> 1, dosage |-> 2] >>] }

\* external pharmacies, one of each type.
Pharmacies ==
    << [id |-> 1, type |-> "decoction", processing_fee |-> 15,
        delivery_fee |-> 25],
       [id |-> 2, type |-> "concentrated", processing_fee |-> 0,
        delivery_fee |-> 30] >>

\* registrations of the day in queue order: registration id and patient id.
Registrations ==
    << [id |-> 1, patient |-> [id |-> 11, allergies |-> << "x", "a", "B" >>]],
       [id |-> 2, patient |-> [id |-> 12, allergies |-> << >>]] >>

\* text typed into the dosage box of a line item: a number, and the
\* emptied box.
DosageInputs == { << "2" >>, << >> }

\* text answered to the amount prompt of an additional charge: a number,
\* a negative number, nothing, and text that is not a number.
AmountInputs == { << "2", "0" >>, << "-", "5" >>, << >>, << "x" >> }

\* text answered to the name prompt of an additional charge.
NameInputs == { << "f", "e", "e" >>, << >> }

DispensingMethods == {"internal", "external_decoction", "external_concentrated"}

(***************************************************************************)
(* useNotificationStore                                                    *)
(***************************************************************************)
Notification(type) == [type |-> type]

\* addNotification appends; the id and the timer are those of NotificationExpire.
addNotification(list, type) == Append(list, Notification(type))

RECURSIVE FilterNotIndex(_, _, _)
\* array.filter((_, i) => i !== index), indices from 0, i the index of Head(s).
FilterNotIndex(s, index, i) ==
    IF s = << >> THEN << >>
    ELSE (IF i # index THEN << Head(s) >> ELSE << >>)
         \o FilterNotIndex(Tail(s), index, i + 1)

(***************************************************************************)
(* Prescription line-item list                                             *)
(***************************************************************************)
\* prescriptionItems.find((item) => item.medicine_id === id) found an item.
HasMedicine(items, id) == \E i \in 1..Len(items) : items[i].medicine_id = id

\* NewItem with the subtotal left at 0, as for a formula item.
NewItem_zeroSubtotal(medicine) ==
    [medicine_id |-> medicine.id,
     dosage |-> 1,
     unit_price |-> OrZero(parseFloat(medicine.selling_price)),
     subtotal |-> 0]

NewItem(medicine) ==
    [medicine_id |-> medicine.id,
     dosage |-> 1,
     unit_price |-> OrZero(parseFloat(medicine.selling_price)),
     subtotal |-> OrZero(parseFloat(medicine.selling_price))]

\* String.prototype.toLowerCase on the letters the names and allergy texts
\* are written with.
LowerChar(c) ==
    CASE c = "A" -> "a"
      [] c = "B" -> "b"
      [] c = "C" -> "c"
      [] c = "X" -> "x"
      [] OTHER -> c

toLowerCase(str) == [i \in 1..Len(str) |-> LowerChar(str[i])]

\* String.prototype.includes
includes(str, search) ==
    \E k \in 0..(Len(str) - Len(search)) :
        SubSeq(str, k + 1, k + Len(search)) = search

\* the allergy check comparing the texts as they are written.
allergyWarning_caseSensitive(patient, medicine) ==
    /\ patient.allergies # << >>
    /\ includes(patient.allergies, medicine.name)

\* currentPatient?.allergies &&
\* allergies.toLowerCase().includes(medicine.name.toLowerCase())
allergyWarning(patient, medicine) ==
    /\ patient.allergies # << >>
    /\ includes(toLowerCase(patient.allergies), toLowerCase(medicine.name))

\* the warning text: the medicine's name between fixed words.
allergyWarningMessage(medicine) == << "!" >> \o medicine.name

\* addMedicine without the duplicate check.
addMedicine_noDuplicateCheck(items, method, medicine) ==
    IF method = "internal" /\ medicine.current_stock <= 0
    THEN [items |-> items, notification |-> "error"]
    ELSE [items |-> Append(items, NewItem(medicine)), notification |-> "none"]

\* addMedicine rejecting only a negative stock.
addMedicine_negativeStockOnly(items, method, medicine) ==
    IF HasMedicine(items, medicine.id)
    THEN [items |-> items, notification |-> "warning"]
    ELSE IF method = "internal" /\ medicine.current_stock < 0
    THEN [items |-> items, notification |-> "error"]
    ELSE [items |-> Append(items, NewItem(medicine)), notification |-> "none"]

\* addMedicine: the new list and the type of the notification raised, if any.
addMedicine(items, method, medicine) ==
    IF HasMedicine(items, medicine.id)
    THEN [items |-> items, notification |-> "warning"]
    ELSE IF method = "internal" /\ medicine.current_stock <= 0
    THEN [items |-> items, notification |-> "error"]
    ELSE [items |-> Append(items, NewItem(medicine)), notification |-> "none"]

\* updateDosage that leaves the subtotal as it was.
updateDosage_staleSubtotal(items, index, dosage) ==
    [items EXCEPT ![index + 1] = [@ EXCEPT !.dosage = dosage]]

\* updateDosage(index, dosage), index from 0.
updateDosage(items, index, dosage) ==
    [items EXCEPT ![index + 1] =
        [@ EXCEPT !.dosage = dosage,
                  !.subtotal = dosage * items[index + 1].unit_price]]

\* removeMedicine filtering on the medicine id of the item at index.
removeMedicine_byMedicineId(items, index) ==
    SelectSeq(items,
              LAMBDA item : item.medicine_id # items[index + 1].medicine_id)

\* removeMedicine(index), index from 0.
removeMedicine(items, index) == FilterNotIndex(items, index, 0)

FormulaItem(item) ==
    [medicine_id |-> item.medicine_id,
     dosage |-> item.dosage,
     unit_price |-> 0,
     subtotal |-> 0]

\* applyExperienceFormula: [...prescriptionItems, ...newItems].
applyExperienceFormula(items, formula) ==
    items \o [i \in 1..Len(formula.items) |-> FormulaItem(formula.items[i])]

(***************************************************************************)
(* Fee aggregation (computed on every render from the current state)       *)
(***************************************************************************)
Num(v) == [nan |-> FALSE, val |-> v]
NaN == [nan |-> TRUE, val |-> 0]

\* JavaScript a + b on numbers.
Plus(a, b) == IF a.nan \/ b.nan THEN NaN ELSE Num(a.val + b.val)

RECURSIVE Reduce(_, _, _)
\* array.reduce((sum, item) => sum + field(item), acc) for a field name.
Reduce(s, field, acc) ==
    IF s = << >> THEN acc
    ELSE Reduce(Tail(s), field, Plus(acc, Head(s)[field]))

medicineTotal ==
    Reduce([i \in 1..Len(prescriptionItems) |->
               [subtotal |-> Num(prescriptionItems[i].subtotal)]],
           "subtotal", Num(0))

additionalTotal == Reduce(additionalCharges, "amount", Num(0))

\* externalPharmacies.find((p) => p.id === selectedPharmacy) found one.
PharmacyFound ==
    \E i \in 1..Len(externalPharmacies) :
        externalPharmacies[i].id = selectedPharmacy

\* the pharmacy found: the first with that id.
selectedPharmacyData ==
    externalPharmacies[
        CHOOSE i \in 1..Len(externalPharmacies) :
            /\ externalPharmacies[i].id = selectedPharmacy
            /\ \A j \in 1..(i - 1) :
                   externalPharmacies[j].id # selectedPharmacy]

\* processingFee without the test of the dispensing method.
processingFee_ignoresMethod ==
    IF PharmacyFound THEN selectedPharmacyData.processing_fee ELSE 0

processingFee ==
    IF dispensingMethod # "internal" /\ PharmacyFound
    THEN selectedPharmacyData.processing_fee ELSE 0

deliveryFee ==
    IF dispensingMethod # "internal" /\ PharmacyFound
    THEN selectedPharmacyData.delivery_fee ELSE 0

\* totalAmount without the delivery fee.
totalAmount_noDeliveryFee ==
    Plus(Plus(medicineTotal, additionalTotal), Num(processingFee))

totalAmount ==
    Plus(Plus(Plus(medicineTotal, additionalTotal), Num(processingFee)),
         Num(deliveryFee))

\* addAdditionalCharge with the answers to its two prompts.
addAdditionalCharge(charges, name, amountStr) ==
    LET amount == parseFloat(IF amountStr = << >> THEN << "0" >> ELSE amountStr)
    IN  IF name = << >> THEN charges
        ELSE IF ~amount.nan /\ amount.val <= 0 THEN charges
        ELSE Append(charges, [amount |-> amount])

\* removeAdditionalCharge(index), index from 0.
removeAdditionalCharge(charges, index) == FilterNotIndex(charges, index, 0)

(***************************************************************************)
(* Backend                                                                 *)
(***************************************************************************)
\* GET registrations/queue: the waiting and in-consultation registrations.
ServerQueue == SelectSeq(Registrations, LAMBDA r : r.id \notin completed)

(***************************************************************************)
(* Initial state: the application loaded and ConsultationPage mounted; the *)
(* mount effect has issued fetchQueue and fetchExternalPharmacies.         *)
(***************************************************************************)
NoPayload == [consultation |-> NULL]

\* the consultation form as useState creates it and as selectPatient resets
\* it; one of its nine text fields stands for all of them.
BlankForm == [chief_complaint |-> << >>]

\* text typed into a field of the consultation form.
FormInputs == { << >>, << "x" >> }

\* GET consultations?patient=: the earlier consultations of a patient.
\* Patient 11 has one on record, patient 12 is on a first visit.
ServerHistory(patientId) ==
    IF patientId = 11 THEN << [patient |-> 11] >> ELSE << >>

\* pages the sidebar links to.
Pages == {"/consultation", "/dashboard", "/billing"}

\* requests made through the api instance.
RequestIds == 1..MaxRequests

\* a request not made yet.  sends and refreshes count the times it was sent
\* and the refresh calls made for it; result and status are what its caller
\* received.
NoRequest == [pc |-> "idle", _retry |-> FALSE, Authorization |-> NULL,
              sends |-> 0, refreshes |-> 0, result |-> "none", status |-> NULL]

SaveIdle == [pc |-> "idle", registration |-> NULL, nItems |-> 0, calls |-> << >>,
             succeeded |-> << >>, consultation |-> NULL, payload |-> NoPayload]

\* characters of the phone numbers passed to maskPhone.
PhoneChars == {"0", "9"}

\* the phone numbers passed to maskPhone: every string of at most
\* MaxPhoneLen characters.
Phones == UNION { [1..n -> PhoneChars] : n \in 0..MaxPhoneLen }

\* maskPhone not called yet.
NotCalled == [called |-> FALSE, phone |-> << >>, threw |-> FALSE,
              value |-> << >>]

\* selectedBill: null
NoBill == [id |-> NULL, balance_due |-> << >>]

\* GET billing/bills: bill 1 has 10 left to pay, bill 2 came without a
\* balance_due text.
ServerBills == << [id |-> 1, balance_due |-> << "1", "0" >>],
                 [id |-> 2, balance_due |-> << >>] >>

\* what the cashier types into the amount box of the payment modal.
PaymentInputs == { << "5" >>, << "2", "0" >>, << "0" >>, << "-", "5" >>, << >> }

\* BillingPage before it is mounted: the initial values of its useState
\* calls, no request in flight.
BillingUnmounted ==
    [bills |-> << >>, billFetches |-> 0, selectedBill |-> NoBill,
     showPaymentModal |-> FALSE, paymentAmount |-> << >>,
     processing |-> FALSE, payments |-> << >>]

\* BillingPage mounted: its effect has issued fetchBills.
BillingMounted == [BillingUnmounted EXCEPT !.billFetches = 1]

Init ==
    /\ currentPatient = NoPatient
    /\ currentRegistrationId = NULL
    /\ notifications = << >>
    /\ queue = << >>
    /\ queueFetches = 1
    /\ saving = FALSE
    /\ prescriptionItems = << >>
    /\ dispensingMethod = "internal"
    /\ externalPharmacies = << >>
    /\ selectedPharmacy = NULL
    /\ additionalCharges = << >>
    /\ save = SaveIdle
    /\ completed = {}
    /\ consulted = {}
    /\ consultationForm = BlankForm
    /\ historyRecords = << >>
    /\ loadingHistory = FALSE
    /\ historyFetches = {}
    /\ allergy = [showAllergyWarning |-> FALSE, allergyMessage |-> << >>]
    /\ localStorage = [access_token |-> 1, refresh_token |-> 1]
    /\ auth = [accessToken |-> 1, refreshToken |-> 1]
    /\ requests = [r \in RequestIds |-> NoRequest]
    /\ location = "/consultation"
    /\ storeQueue = << >>
    /\ billing = BillingUnmounted
    /\ mask = NotCalled
    /\ lastOp = "mount"

(***************************************************************************)
(* Notifications and fetches                                               *)
(***************************************************************************)
\* the timer of notification number i fires (or the user dismisses it).
NotificationExpire(i) ==
    /\ i \in 0..(Len(notifications) - 1)
    /\ notifications' = FilterNotIndex(notifications, i, 0)
    /\ lastOp' = "expire"
    /\ UNCHANGED << authVars, otherVars, allergy, chartVars, storeVars, queueVars, saving, prescriptionItems, feeVars, save >>

\* the refresh button of the queue panel: fetchQueue().
RefreshQueue ==
    /\ queueFetches < MaxFetches
    /\ queueFetches' = queueFetches + 1
    /\ lastOp' = "refreshQueue"
    /\ UNCHANGED << authVars, otherVars, allergy, chartVars, storeVars, notifications, queue, completed, consulted, saving,
                    prescriptionItems, feeVars, save >>

\* fetchQueue: the response arrived.
FetchQueueOk ==
    /\ queueFetches > 0
    /\ queue' = ServerQueue
    /\ queueFetches' = queueFetches - 1
    /\ lastOp' = "fetchQueue"
    /\ UNCHANGED << authVars, otherVars, allergy, chartVars, storeVars, notifications, completed, consulted, saving,
                    prescriptionItems, feeVars, save >>

\* fetchQueue: the request failed (console.error only).
FetchQueueFailed ==
    /\ queueFetches > 0
    /\ queueFetches' = queueFetches - 1
    /\ lastOp' = "fetchQueueFailed"
    /\ UNCHANGED << authVars, otherVars, allergy, chartVars, storeVars, notifications, queue, completed, consulted, saving,
                    prescriptionItems, feeVars, save >>

\* fetchExternalPharmacies: the response arrived.  A failed request only
\* logs, and leaves the list empty as if the response never came.
FetchExternalPharmaciesOk ==
    /\ externalPharmacies = << >>
    /\ externalPharmacies' = Pharmacies
    /\ lastOp' = "fetchExternalPharmacies"
    /\ UNCHANGED << authVars, otherVars, allergy, chartVars, storeVars, notifications, queueVars, saving,
                    prescriptionItems, dispensingMethod, selectedPharmacy,
                    additionalCharges, save >>

(***************************************************************************)
(* Handlers of the page                                                    *)
(***************************************************************************)
\* selectPatient without setSelectedPharmacy(null).
SelectPatient_keepsPharmacy(patient) ==
    /\ currentPatient' = [id |-> patient.patient.id,
                          registration_id |-> patient.id,
                          allergies |-> patient.patient.allergies]
    /\ allergy' = IF patient.patient.allergies # << >>
                  THEN [showAllergyWarning |-> TRUE,
                        allergyMessage |-> patient.patient.allergies]
                  ELSE allergy
    /\ currentRegistrationId' = patient.id
    /\ prescriptionItems' = << >>
    /\ additionalCharges' = << >>
    /\ dispensingMethod' = "internal"
    /\ consultationForm' = BlankForm
    /\ loadingHistory' = TRUE
    /\ historyFetches' = historyFetches \cup {patient.patient.id}
    /\ lastOp' = "selectPatient"
    /\ UNCHANGED << authVars, otherVars, notifications, queueVars, saving,
                    externalPharmacies, selectedPharmacy, save, historyRecords >>

\* click on a patient of the queue panel.
SelectPatient(patient) ==
    /\ currentPatient' = [id |-> patient.patient.id,
                          registration_id |-> patient.id,
                          allergies |-> patient.patient.allergies]
    /\ allergy' = IF patient.patient.allergies # << >>
                  THEN [showAllergyWarning |-> TRUE,
                        allergyMessage |-> patient.patient.allergies]
                  ELSE allergy
    /\ currentRegistrationId' = patient.id
    /\ prescriptionItems' = << >>
    /\ additionalCharges' = << >>
    /\ dispensingMethod' = "internal"
    /\ selectedPharmacy' = NULL
    /\ consultationForm' = BlankForm
    /\ loadingHistory' = TRUE
    /\ historyFetches' = historyFetches \cup {patient.patient.id}
    /\ lastOp' = "selectPatient"
    /\ UNCHANGED << authVars, otherVars, notifications, queueVars, saving,
                    externalPharmacies, save, historyRecords >>

\* click on a medicine of the search results.
AddMedicine(medicine) ==
    LET r == addMedicine(prescriptionItems, dispensingMethod, medicine)
    IN  /\ Len(r.items) <= MaxItems
        /\ r.notification # "none" => Len(notifications) < MaxNotifications
        /\ prescriptionItems' = r.items
        /\ notifications' = IF r.notification = "none" THEN notifications
                            ELSE addNotification(notifications, r.notification)
        /\ allergy' = IF r.notification = "none"
                         /\ allergyWarning(currentPatient, medicine)
                      THEN [showAllergyWarning |-> TRUE,
                            allergyMessage |-> allergyWarningMessage(medicine)]
                      ELSE allergy
        /\ lastOp' = "addMedicine"
        /\ UNCHANGED << authVars, otherVars, chartVars, storeVars, queueVars, saving, feeVars, save >>

\* typing into the dosage box of line item index:
\* updateDosage(index, parseFloat(e.target.value) || 0).
UpdateDosage(index, text) ==
    /\ index \in 0..(Len(prescriptionItems) - 1)
    /\ prescriptionItems' =
           updateDosage(prescriptionItems, index, OrZero(parseFloat(text)))
    /\ lastOp' = "updateDosage"
    /\ UNCHANGED << authVars, otherVars, allergy, chartVars, storeVars, notifications, queueVars, saving, feeVars, save >>

\* click on the remove button of line item index.
RemoveMedicine(index) ==
    /\ index \in 0..(Len(prescriptionItems) - 1)
    /\ prescriptionItems' = removeMedicine(prescriptionItems, index)
    /\ lastOp' = "removeMedicine"
    /\ UNCHANGED << authVars, otherVars, allergy, chartVars, storeVars, notifications, queueVars, saving, feeVars, save >>

\* click on a formula of the experience-formula dialog.
ApplyExperienceFormula(formula) ==
    /\ Len(prescriptionItems) + Len(formula.items) <= MaxItems
    /\ Len(notifications) < MaxNotifications
    /\ prescriptionItems' = applyExperienceFormula(prescriptionItems, formula)
    /\ notifications' = addNotification(notifications, "success")
    /\ lastOp' = "applyExperienceFormula"
    /\ UNCHANGED << authVars, otherVars, allergy, chartVars, storeVars, queueVars, saving, feeVars, save >>

\* one of the three dispensing-method radio buttons.
SetDispensingMethod(method) ==
    /\ dispensingMethod' = method
    /\ lastOp' = "setDispensingMethod"
    /\ UNCHANGED << authVars, otherVars, allergy, chartVars, storeVars, notifications, queueVars, saving,
                    prescriptionItems, externalPharmacies, selectedPharmacy,
                    additionalCharges, save >>

\* the options of the pharmacy select: the empty option (value 0 after
\* Number()) and the pharmacies of the type of the dispensing method.
PharmacyOptions ==
    {0} \cup { externalPharmacies[i].id : i \in
                 { j \in 1..Len(externalPharmacies) :
                     \/ /\ dispensingMethod = "external_decoction"
                        /\ externalPharmacies[j].type = "decoction"
                     \/ /\ dispensingMethod = "external_concentrated"
                        /\ externalPharmacies[j].type = "concentrated" } }

\* the pharmacy select, shown for an external dispensing method:
\* setSelectedPharmacy(Number(e.target.value) || null).
SetSelectedPharmacy(value) ==
    /\ dispensingMethod # "internal"
    /\ value \in PharmacyOptions
    /\ selectedPharmacy' = IF value = 0 THEN NULL ELSE value
    /\ lastOp' = "setSelectedPharmacy"
    /\ UNCHANGED << authVars, otherVars, allergy, chartVars, storeVars, notifications, queueVars, saving,
                    prescriptionItems, dispensingMethod, externalPharmacies,
                    additionalCharges, save >>

\* the add button of the additional charges, with the two prompt answers.
AddAdditionalCharge(name, amountStr) ==
    /\ Len(addAdditionalCharge(additionalCharges, name, amountStr)) <= MaxCharges
    /\ additionalCharges' = addAdditionalCharge(additionalCharges, name, amountStr)
    /\ lastOp' = "addAdditionalCharge"
    /\ UNCHANGED << authVars, otherVars, allergy, chartVars, storeVars, notifications, queueVars, saving,
                    prescriptionItems, dispensingMethod, externalPharmacies,
                    selectedPharmacy, save >>

\* the remove button of additional charge index.
RemoveAdditionalCharge(index) ==
    /\ index \in 0..(Len(additionalCharges) - 1)
    /\ additionalCharges' = removeAdditionalCharge(additionalCharges, index)
    /\ lastOp' = "removeAdditionalCharge"
    /\ UNCHANGED << authVars, otherVars, allergy, chartVars, storeVars, notifications, queueVars, saving,
                    prescriptionItems, dispensingMethod, externalPharmacies,
                    selectedPharmacy, save >>

\* the confirm button of the allergy warning modal.
DismissAllergyWarning ==
    /\ allergy.showAllergyWarning
    /\ allergy' = [allergy EXCEPT !.showAllergyWarning = FALSE]
    /\ lastOp' = "dismissAllergyWarning"
    /\ UNCHANGED << authVars, otherVars, chartVars, storeVars, notifications, queueVars,
                    saving, prescriptionItems, feeVars, save >>

(***************************************************************************)
(* Consultation form and patient history                                   *)
(***************************************************************************)
\* typing into a field of the consultation form.
SetConsultationForm(text) ==
    /\ consultationForm' = [consultationForm EXCEPT !.chief_complaint = text]
    /\ lastOp' = "setConsultationForm"
    /\ UNCHANGED << authVars, otherVars, allergy, storeVars, notifications, queueVars, saving,
                    prescriptionItems, feeVars, save, historyRecords,
                    loadingHistory, historyFetches >>

\* fetchPatientHistory: the response for a patient arrived.
HistoryFetched(patientId) ==
    /\ patientId \in historyFetches
    /\ historyFetches' = historyFetches \ {patientId}
    /\ historyRecords' = ServerHistory(patientId)
    /\ loadingHistory' = FALSE
    /\ lastOp' = "historyFetched"
    /\ UNCHANGED << authVars, otherVars, allergy, storeVars, notifications, queueVars, saving,
                    prescriptionItems, feeVars, save, consultationForm >>

\* fetchPatientHistory: the request for a patient failed (console.error).
HistoryFailed(patientId) ==
    /\ patientId \in historyFetches
    /\ historyFetches' = historyFetches \ {patientId}
    /\ loadingHistory' = FALSE
    /\ lastOp' = "historyFailed"
    /\ UNCHANGED << authVars, otherVars, allergy, storeVars, notifications, queueVars, saving,
                    prescriptionItems, feeVars, save, consultationForm,
                    historyRecords >>

(***************************************************************************)
(* Multi-step save sequence.  The invocation in flight keeps what its      *)
(* closure captured when the handler was called: the registration id and   *)
(* the length of the line-item list.  calls lists the requests the         *)
(* invocation has issued so far.                                           *)
(***************************************************************************)
\* the entry check left out.
RegistrationMissing_never(id) == FALSE

\* !currentRegistrationId
RegistrationMissing(id) == id = NULL

\* a save control that takes clicks while loading.
SaveButtonEnabled_always == TRUE

\* <Button loading={saving}>: the save control takes no click while loading.
SaveButtonEnabled == ~saving

\* the prescription step taken whatever the list holds.
AfterConsultation_always(nItems) == "prescription"

\* the step that follows a successful consultation create.
AfterConsultation(nItems) == IF nItems > 0 THEN "prescription" ELSE "complete"

\* the request a step issues.
RequestOf(pc) ==
    CASE pc = "consultation" -> "consultation_create"
      [] pc = "prescription" -> "prescription_create"
      [] pc = "complete" -> "registration_complete"

\* ids the backend may give a new consultation record.
ConsultationIds == {101, 102}

\* the payload built from the store's currentConsultationId, which no code sets.
prescriptionData_storeId(consultationId) == [consultation |-> NULL]

\* prescriptionData: consultation: consultationRes.data.id
prescriptionData(consultationId) == [consultation |-> consultationId]

\* a failed request sent again by the handler itself.
AfterFailure_retry(pc) == pc

\* the step that follows a failed request: the catch block issues none.
AfterFailure(pc) == "idle"

\* a finally block that leaves the flag set.
finallySaving_stuck == TRUE

\* finally { setSaving(false) }
finallySaving == FALSE

\* a clearConsultation that keeps the registration id.
clearConsultation_keepsRegistration(store) ==
    [store EXCEPT !.currentPatient = NoPatient]

\* useConsultationStore.clearConsultation
clearConsultation(store) ==
    [currentPatient |-> NoPatient, currentRegistrationId |-> NULL]

\* click on the save button: the entry check, then the consultation create
\* request is issued and the handler waits for its response.
SaveConsultation ==
    /\ SaveButtonEnabled
    /\ IF RegistrationMissing(currentRegistrationId)
       THEN /\ Len(notifications) < MaxNotifications
            /\ notifications' = addNotification(notifications, "error")
            /\ UNCHANGED << saving, save >>
       ELSE /\ saving' = TRUE
            /\ save' = [SaveIdle EXCEPT
                            !.pc = "consultation",
                            !.registration = currentRegistrationId,
                            !.nItems = Len(prescriptionItems),
                            !.calls = << RequestOf("consultation") >>]
            /\ UNCHANGED notifications
    /\ lastOp' = "saveConsultation"
    /\ UNCHANGED << authVars, otherVars, allergy, chartVars, storeVars, queueVars, prescriptionItems, feeVars >>

\* the consultation create request succeeded with a record of the given id:
\* the next request is issued.
ConsultationCreated(id) ==
    /\ save.pc = "consultation"
    /\ consulted' = consulted \cup {save.registration}
    /\ LET next == AfterConsultation(save.nItems)
       IN  save' = [save EXCEPT
                        !.pc = next,
                        !.consultation = id,
                        !.succeeded = Append(@, RequestOf("consultation")),
                        !.calls = Append(@, RequestOf(next)),
                        !.payload = IF next = "prescription"
                                    THEN prescriptionData(id) ELSE @]
    /\ lastOp' = "consultationCreated"
    /\ UNCHANGED << authVars, otherVars, allergy, chartVars, storeVars, notifications, queue, queueFetches, completed,
                    saving, prescriptionItems, feeVars >>

\* the prescription create request succeeded: registration complete is issued.
PrescriptionCreated ==
    /\ save.pc = "prescription"
    /\ save' = [save EXCEPT !.pc = "complete",
                            !.succeeded = Append(@, RequestOf("prescription")),
                            !.calls = Append(@, RequestOf("complete"))]
    /\ lastOp' = "prescriptionCreated"
    /\ UNCHANGED << authVars, otherVars, allergy, chartVars, storeVars, notifications, queueVars, saving,
                    prescriptionItems, feeVars >>

\* the registration complete request succeeded: success notification,
\* clearConsultation, the lists emptied, fetchQueue, saving reset.
RegistrationCompleted ==
    /\ save.pc = "complete"
    /\ Len(notifications) < MaxNotifications
    /\ queueFetches < MaxFetches
    /\ completed' = completed \cup {save.registration}
    /\ notifications' = addNotification(notifications, "success")
    /\ LET store == clearConsultation([currentPatient |-> currentPatient,
                                        currentRegistrationId |-> currentRegistrationId])
       IN  /\ currentPatient' = store.currentPatient
           /\ currentRegistrationId' = store.currentRegistrationId
    /\ prescriptionItems' = << >>
    /\ additionalCharges' = << >>
    /\ queueFetches' = queueFetches + 1
    /\ saving' = finallySaving
    /\ save' = SaveIdle
    /\ lastOp' = "registrationCompleted"
    /\ historyRecords' = << >>
    /\ UNCHANGED << authVars, otherVars, allergy, queue, consulted, dispensingMethod,
                    externalPharmacies, selectedPharmacy, consultationForm,
                    loadingHistory, historyFetches >>

\* the request in flight failed: the catch block and the finally block.
SaveStepFailed ==
    /\ save.pc # "idle"
    /\ Len(notifications) < MaxNotifications
    /\ notifications' = addNotification(notifications, "error")
    /\ saving' = finallySaving
    /\ save' = IF AfterFailure(save.pc) = "idle"
               THEN SaveIdle
               ELSE [save EXCEPT !.pc = AfterFailure(save.pc),
                                 !.calls = Append(@, RequestOf(AfterFailure(save.pc)))]
    /\ lastOp' = "saveStepFailed"
    /\ UNCHANGED << authVars, otherVars, allergy, chartVars, storeVars, queueVars, prescriptionItems, feeVars >>

(***************************************************************************)
(* The api instance: the request interceptor, the response interceptor     *)
(* with the token refresh, and the auth store's logout.  A request is      *)
(* "sent" while the api instance waits for its response, "refreshing"      *)
(* while the interceptor waits for the refresh call, and "done" when its   *)
(* caller has received a response or an error.                             *)
(***************************************************************************)
\* access tokens the backend may issue on a refresh.
AccessTokens == {2, 3}

\* statuses of a failed response: unauthorized, and any other failure.
ErrorStatuses == {401, 500}

\* request interceptor: Authorization from localStorage's access_token.
requestInterceptor(header, token) == IF token # NULL THEN token ELSE header

\* an interceptor that never marks the request.
MarkRetried_never(flag) == flag

\* originalRequest._retry = true
MarkRetried(flag) == TRUE

\* a catch block that keeps the refresh token.
removeTokens_accessOnly(storage) == [storage EXCEPT !.access_token = NULL]

\* catch (refreshError): both tokens removed from localStorage.
removeTokens(storage) == [access_token |-> NULL, refresh_token |-> NULL]

\* error.response?.status === 401 && !originalRequest._retry
ShouldRefresh(request, status) == status = 401 /\ ~request._retry

\* a refresh call only when no other one is in flight.
CanRefresh_singleFlight(refreshToken) ==
    /\ refreshToken # NULL
    /\ \A q \in RequestIds : requests[q].pc # "refreshing"

\* if (refreshToken)
CanRefresh(refreshToken) == refreshToken # NULL

\* a refresh whose access token is not stored.
setAccessToken_dropped(storage, access) == storage

\* localStorage.setItem('access_token', access)
setAccessToken(storage, access) == [storage EXCEPT !.access_token = access]

\* some code calls the api instance.
SendRequest(r) ==
    /\ requests[r].pc = "idle"
    /\ requests' = [requests EXCEPT ![r] =
           [@ EXCEPT !.pc = "sent",
                     !.Authorization =
                         requestInterceptor(@, localStorage.access_token),
                     !.sends = @ + 1]]
    /\ lastOp' = "sendRequest"
    /\ UNCHANGED << pageVars, otherVars, localStorage, auth, location >>

\* a response with a success status: the interceptor passes it on.
ResponseOk(r) ==
    /\ requests[r].pc = "sent"
    /\ requests' = [requests EXCEPT ![r] =
           [@ EXCEPT !.pc = "done",
                     !.status = 200,
                     !.result = IF requests[r]._retry THEN "retry response"
                                ELSE "response"]]
    /\ lastOp' = "responseOk"
    /\ UNCHANGED << pageVars, otherVars, localStorage, auth, location >>

\* a failed response: the response interceptor.  A first 401 marks the
\* request and, with a refresh token in localStorage, issues the refresh
\* call; every other failure is rejected to the caller.
ResponseError(r, status) ==
    /\ requests[r].pc = "sent"
    /\ requests' = [requests EXCEPT ![r] =
           IF ShouldRefresh(requests[r], status)
           THEN IF CanRefresh(localStorage.refresh_token)
                THEN [@ EXCEPT !.pc = "refreshing",
                               !._retry = MarkRetried(@),
                               !.refreshes = @ + 1]
                ELSE [@ EXCEPT !.pc = "done",
                               !._retry = MarkRetried(@),
                               !.status = status,
                               !.result = "error"]
           ELSE [@ EXCEPT !.pc = "done",
                          !.status = status,
                          !.result = IF requests[r]._retry THEN "retry error"
                                     ELSE "error"]]
    /\ lastOp' = "responseError"
    /\ UNCHANGED << pageVars, otherVars, localStorage, auth, location >>

\* the refresh call succeeded: the access token is stored and the request
\* is sent again through the api instance.
RefreshOk(r, access) ==
    /\ requests[r].pc = "refreshing"
    /\ localStorage' = setAccessToken(localStorage, access)
    /\ requests' = [requests EXCEPT ![r] =
           [@ EXCEPT !.pc = "sent",
                     !.Authorization =
                         requestInterceptor(access, localStorage'.access_token),
                     !.sends = @ + 1]]
    /\ lastOp' = "refreshOk"
    /\ UNCHANGED << pageVars, otherVars, auth, location >>

\* the refresh call failed: tokens removed, the window sent to the login
\* page, and the error of the request rejected to its caller.
RefreshFailed(r) ==
    /\ requests[r].pc = "refreshing"
    /\ localStorage' = removeTokens(localStorage)
    /\ location' = "/login"
    /\ requests' = [requests EXCEPT ![r] =
           [@ EXCEPT !.pc = "done", !.status = 401, !.result = "error"]]
    /\ lastOp' = "refreshFailed"
    /\ UNCHANGED << pageVars, otherVars, auth >>

\* the login form submitted and the login request answered:
\* useAuthStore.setTokens(access, refresh), then router.push.
SetTokens(access, refresh) ==
    /\ location = "/login"
    /\ localStorage' = [access_token |-> access, refresh_token |-> refresh]
    /\ auth' = [accessToken |-> access, refreshToken |-> refresh]
    /\ location' = "/dashboard"
    /\ lastOp' = "setTokens"
    /\ UNCHANGED << pageVars, otherVars, requests >>

\* the logout button of the sidebar: useAuthStore.logout.
Logout ==
    /\ localStorage' = [access_token |-> NULL, refresh_token |-> NULL]
    /\ auth' = [accessToken |-> NULL, refreshToken |-> NULL]
    /\ lastOp' = "logout"
    /\ UNCHANGED << pageVars, otherVars, requests, location >>

(***************************************************************************)
(* Navigation with the links of the sidebar.  The router swaps the page    *)
(* component and keeps the document, so the stores keep their state; the   *)
(* state of ConsultationPage goes with the component, and the responses to *)
(* the fetches it left in flight only set state of a component that is     *)
(* gone.  A save sequence outlives the component; navigation while one is  *)
(* running is left out.                                                    *)
(***************************************************************************)
\* a link of the sidebar to another page, clicked on the consultation page.
LeaveConsultationPage(href) ==
    /\ location = "/consultation"
    /\ href # "/consultation"
    /\ save.pc = "idle"
    /\ location' = href
    /\ queue' = << >>
    /\ queueFetches' = 0
    /\ saving' = FALSE
    /\ prescriptionItems' = << >>
    /\ dispensingMethod' = "internal"
    /\ externalPharmacies' = << >>
    /\ selectedPharmacy' = NULL
    /\ additionalCharges' = << >>
    /\ consultationForm' = BlankForm
    /\ historyRecords' = << >>
    /\ loadingHistory' = FALSE
    /\ historyFetches' = {}
    /\ allergy' = [showAllergyWarning |-> FALSE, allergyMessage |-> << >>]
    /\ billing' = IF href = "/billing" THEN BillingMounted ELSE billing
    /\ lastOp' = "leaveConsultationPage"
    /\ UNCHANGED << storeVars, notifications, completed, consulted, save,
                    localStorage, auth, requests, storeQueue, mask >>

\* the link of the sidebar to the consultation page, clicked on another
\* page: the component mounts and its effect issues the two fetches; the
\* state of the page that was left goes with its component.  Leaving the
\* billing page while a payment is in flight is left out.
EnterConsultationPage ==
    /\ location \notin {"/consultation", "/login"}
    /\ billing.payments = << >>
    /\ location' = "/consultation"
    /\ queueFetches' = 1
    /\ billing' = BillingUnmounted
    /\ lastOp' = "mount"
    /\ UNCHANGED << storeVars, notifications, queue, completed, consulted,
                    saving, prescriptionItems, feeVars, save, chartVars,
                    allergy, localStorage, auth, requests, storeQueue, mask >>

(***************************************************************************)
(* useQueueStore                                                           *)
(***************************************************************************)
\* queue items: the id and one more field stand for the fields of QueueItem.
QueueItems == [id : {1, 2}, status : {"waiting", "called"}]

\* Partial<QueueItem> patches: one field, the id itself, and no field.
QueueUpdates == { [status |-> "called"], [id |-> 2], << >> }

\* { ...item, ...updates }
Spread(item, updates) ==
    [f \in DOMAIN item \cup DOMAIN updates |->
        IF f \in DOMAIN updates THEN updates[f] ELSE item[f]]

\* addToQueue: [...state.queue, item]
addToQueue(list, item) == Append(list, item)

\* removeFromQueue dropping every item from the first one with the id on.
removeFromQueue_truncates(list, id) ==
    IF \E i \in 1..Len(list) : list[i].id = id
    THEN SubSeq(list, 1, (CHOOSE i \in 1..Len(list) :
                             /\ list[i].id = id
                             /\ \A j \in 1..(i - 1) : list[j].id # id) - 1)
    ELSE list

\* removeFromQueue: state.queue.filter((item) => item.id !== id)
removeFromQueue(list, id) == SelectSeq(list, LAMBDA item : item.id # id)

\* updateQueueItem: state.queue.map((item) =>
\*     item.id === id ? { ...item, ...updates } : item)
updateQueueItem(list, id, updates) ==
    [i \in 1..Len(list) |->
        IF list[i].id = id THEN Spread(list[i], updates) ELSE list[i]]

AddToQueue(item) ==
    /\ Len(storeQueue) < MaxQueue
    /\ storeQueue' = addToQueue(storeQueue, item)
    /\ lastOp' = "addToQueue"
    /\ UNCHANGED << pageVars, authVars, billing, mask >>

RemoveFromQueue(id) ==
    /\ storeQueue' = removeFromQueue(storeQueue, id)
    /\ lastOp' = "removeFromQueue"
    /\ UNCHANGED << pageVars, authVars, billing, mask >>

UpdateQueueItem(id, updates) ==
    /\ storeQueue' = updateQueueItem(storeQueue, id, updates)
    /\ lastOp' = "updateQueueItem"
    /\ UNCHANGED << pageVars, authVars, billing, mask >>

(***************************************************************************)
(* BillingPage: the payment modal.  The handlers are taken as callable in  *)
(* every state of the page, handlePayment with no bill selected included.  *)
(* The bills the backend serves stay as they are: what a payment does to   *)
(* the balance of a bill is not modelled.                                  *)
(***************************************************************************)
RECURSIVE DigitsOf(_)
\* the decimal digits of a natural number.
DigitsOf(n) ==
    IF n < 10 THEN << DigitChars[n + 1] >>
    ELSE DigitsOf(n \div 10) \o << DigitChars[(n % 10) + 1] >>

\* Number.prototype.toString on the numbers of the model.
toString(x) ==
    IF x.nan THEN << "N", "a", "N" >>
    ELSE IF x.val < 0 THEN << "-" >> \o DigitsOf(0 - x.val)
    ELSE DigitsOf(x.val)

\* JavaScript `s || d` on a string: the empty string is falsy.
OrText(s, d) == IF s = << >> THEN d ELSE s

\* JavaScript a > b on numbers: false when either is NaN.
Greater(a, b) == ~a.nan /\ ~b.nan /\ a.val > b.val

\* JavaScript isNaN(a) || a <= 0.
NotPositive(a) == a.nan \/ a.val <= 0

paymentCheck_noUpperBound(selectedBill, paymentAmount) ==
    LET amount == parseFloat(paymentAmount)
    IN  IF selectedBill = NoBill THEN "none"
        ELSE IF NotPositive(amount) THEN "invalid"
        ELSE "pay"

\* the checks at the head of handlePayment: "none" is the silent return,
\* "invalid" and "excess" the returns after an error notification, "pay"
\* the way on to the request.
paymentCheck(selectedBill, paymentAmount) ==
    LET amount == parseFloat(paymentAmount)
    IN  IF selectedBill = NoBill THEN "none"
        ELSE IF NotPositive(amount) THEN "invalid"
        ELSE IF Greater(amount, parseFloat(OrText(selectedBill.balance_due, << "0" >>)))
        THEN "excess"
        ELSE "pay"

\* fetchBills: the response arrived.
BillsFetched ==
    /\ billing.billFetches > 0
    /\ billing' = [billing EXCEPT !.bills = ServerBills,
                                  !.billFetches = @ - 1]
    /\ lastOp' = "fetchBills"
    /\ UNCHANGED << consultationVars, notifications, authVars, storeQueue, mask >>

\* fetchBills: the request failed.
BillsFetchFailed ==
    /\ billing.billFetches > 0
    /\ billing' = [billing EXCEPT !.bills = << >>,
                                  !.billFetches = @ - 1]
    /\ lastOp' = "fetchBillsFailed"
    /\ UNCHANGED << consultationVars, notifications, authVars, storeQueue, mask >>

\* the pay button of a bill in the list.
OpenPaymentModal(bill) ==
    /\ location = "/billing"
    /\ \E i \in 1..Len(billing.bills) : billing.bills[i] = bill
    /\ billing' = [billing EXCEPT
           !.selectedBill = bill,
           !.paymentAmount =
               toString(parseFloat(OrText(bill.balance_due, << "0" >>))),
           !.showPaymentModal = TRUE]
    /\ lastOp' = "openPaymentModal"
    /\ UNCHANGED << consultationVars, notifications, authVars, storeQueue, mask >>

\* the amount box of the payment modal.
SetPaymentAmount(text) ==
    /\ location = "/billing"
    /\ billing.showPaymentModal
    /\ billing.selectedBill # NoBill
    /\ billing' = [billing EXCEPT !.paymentAmount = text]
    /\ lastOp' = "setPaymentAmount"
    /\ UNCHANGED << consultationVars, notifications, authVars, storeQueue, mask >>

\* onClose of the payment modal.
ClosePaymentModal ==
    /\ location = "/billing"
    /\ billing.showPaymentModal
    /\ billing' = [billing EXCEPT !.showPaymentModal = FALSE]
    /\ lastOp' = "closePaymentModal"
    /\ UNCHANGED << consultationVars, notifications, authVars, storeQueue, mask >>

\* handlePayment up to its await.
HandlePayment ==
    /\ location = "/billing"
    /\ LET check == paymentCheck(billing.selectedBill, billing.paymentAmount)
       IN  \/ /\ check = "none"
              /\ UNCHANGED << billing, notifications >>
           \/ /\ check \in {"invalid", "excess"}
              /\ Len(notifications) < MaxNotifications
              /\ notifications' = addNotification(notifications, "error")
              /\ UNCHANGED billing
           \/ /\ check = "pay"
              /\ Len(billing.payments) < MaxPayments
              /\ billing' = [billing EXCEPT
                     !.processing = TRUE,
                     !.payments = Append(@,
                         [bill |-> billing.selectedBill.id,
                          amount |-> parseFloat(billing.paymentAmount).val])]
              /\ UNCHANGED notifications
    /\ lastOp' = "handlePayment"
    /\ UNCHANGED << consultationVars, authVars, storeQueue, mask >>

\* the pay request succeeded: the rest of the try block and the finally
\* block.
PaymentOk ==
    /\ billing.payments # << >>
    /\ Len(notifications) < MaxNotifications
    /\ billing.billFetches < MaxFetches
    /\ notifications' = addNotification(notifications, "success")
    /\ billing' = [billing EXCEPT !.payments = Tail(@),
                                  !.showPaymentModal = FALSE,
                                  !.selectedBill = NoBill,
                                  !.billFetches = @ + 1,
                                  !.processing = FALSE]
    /\ lastOp' = "paymentOk"
    /\ UNCHANGED << consultationVars, authVars, storeQueue, mask >>

\* the pay request failed: the catch block and the finally block.
PaymentFailed ==
    /\ billing.payments # << >>
    /\ Len(notifications) < MaxNotifications
    /\ notifications' = addNotification(notifications, "error")
    /\ billing' = [billing EXCEPT !.payments = Tail(@),
                                  !.processing = FALSE]
    /\ lastOp' = "paymentFailed"
    /\ UNCHANGED << consultationVars, authVars, storeQueue, mask >>

(***************************************************************************)
(* maskPhone.  A call either returns a string or throws; threw records     *)
(* which.                                                                  *)
(***************************************************************************)
RECURSIVE Stars(_)
\* count copies of '*', count >= 0.
Stars(count) == IF count = 0 THEN << >> ELSE << "*" >> \o Stars(count - 1)

\* '*'.repeat(count): String.prototype.repeat throws a RangeError when the
\* count is negative.
repeat(count) ==
    IF count < 0 THEN [threw |-> TRUE, value |-> << >>]
    ELSE [threw |-> FALSE, value |-> Stars(count)]

\* maskPhone(phone): slice(0, 4), the stars, slice(-3).
maskPhone(phone) ==
    IF phone = << >> \/ Len(phone) < 4
    THEN [threw |-> FALSE, value |-> phone]
    ELSE LET stars == repeat(Len(phone) - 7)
         IN  IF stars.threw THEN [threw |-> TRUE, value |-> << >>]
             ELSE [threw |-> FALSE,
                   value |-> SubSeq(phone, 1, 4) \o stars.value
                             \o SubSeq(phone, Len(phone) - 2, Len(phone))]

\* some code calls maskPhone(phone).
MaskPhone(phone) ==
    /\ mask' = [called |-> TRUE, phone |-> phone,
                threw |-> maskPhone(phone).threw,
                value |-> maskPhone(phone).value]
    /\ lastOp' = "maskPhone"
    /\ UNCHANGED << pageVars, authVars, storeQueue, billing >>

(***************************************************************************)
(* Specifications.  Each takes the handlers of one part of the page.       *)
(***************************************************************************)
QueuePatients == { queue[i] : i \in 1..Len(queue) }

\* the prescription line-item list
NextItems ==
    \/ FetchQueueOk
    \/ \E patient \in QueuePatients : SelectPatient(patient)
    \/ \E medicine \in MedicineResults : AddMedicine(medicine)
    \/ \E index \in 0..(MaxItems - 1), text \in DosageInputs :
           UpdateDosage(index, text)
    \/ \E index \in 0..(MaxItems - 1) : RemoveMedicine(index)
    \/ \E formula \in ExperienceFormulas : ApplyExperienceFormula(formula)
    \/ \E method \in DispensingMethods : SetDispensingMethod(method)
    \/ \E i \in 0..(MaxNotifications - 1) : NotificationExpire(i)

SpecItems == Init /\ [][NextItems]_vars

\* the fee aggregation
NextFees ==
    \/ FetchQueueOk
    \/ FetchExternalPharmaciesOk
    \/ \E patient \in QueuePatients : SelectPatient(patient)
    \/ \E medicine \in MedicineResults : AddMedicine(medicine)
    \/ \E index \in 0..(MaxItems - 1), text \in DosageInputs :
           UpdateDosage(index, text)
    \/ \E index \in 0..(MaxItems - 1) : RemoveMedicine(index)
    \/ \E method \in DispensingMethods : SetDispensingMethod(method)
    \/ \E value \in 0..Len(Pharmacies) : SetSelectedPharmacy(value)
    \/ \E name \in NameInputs, amountStr \in AmountInputs :
           AddAdditionalCharge(name, amountStr)
    \/ \E index \in 0..(MaxCharges - 1) : RemoveAdditionalCharge(index)
    \/ \E i \in 0..(MaxNotifications - 1) : NotificationExpire(i)

SpecFees == Init /\ [][NextFees]_vars

\* the save sequence
NextSave ==
    \/ RefreshQueue
    \/ FetchQueueOk
    \/ FetchQueueFailed
    \/ \E patient \in QueuePatients : SelectPatient(patient)
    \/ \E medicine \in MedicineResults : AddMedicine(medicine)
    \/ \E index \in 0..(MaxItems - 1) : RemoveMedicine(index)
    \/ SaveConsultation
    \/ \E id \in ConsultationIds : ConsultationCreated(id)
    \/ PrescriptionCreated
    \/ RegistrationCompleted
    \/ SaveStepFailed
    \/ \E i \in 0..(MaxNotifications - 1) : NotificationExpire(i)

SpecSave == Init /\ [][NextSave]_vars

\* what the doctor enters for a visit, and what a save leaves of it
NextVisit ==
    \/ FetchQueueOk
    \/ \E patient \in QueuePatients : SelectPatient(patient)
    \/ \E medicine \in MedicineResults : AddMedicine(medicine)
    \/ AddAdditionalCharge(<< "f", "e", "e" >>, << "2", "0" >>)
    \/ \E text \in FormInputs : SetConsultationForm(text)
    \/ SaveConsultation
    \/ \E id \in ConsultationIds : ConsultationCreated(id)
    \/ PrescriptionCreated
    \/ RegistrationCompleted
    \/ SaveStepFailed
    \/ \E i \in 0..(MaxNotifications - 1) : NotificationExpire(i)

SpecVisit == Init /\ [][NextVisit]_vars

\* the patient chart: history of the selected patient, and what a save
\* that succeeds leaves of it
NextChart ==
    \/ FetchQueueOk
    \/ \E patient \in QueuePatients : SelectPatient(patient)
    \/ \E patientId \in historyFetches : HistoryFetched(patientId)
    \/ \E patientId \in historyFetches : HistoryFailed(patientId)
    \/ \E medicine \in MedicineResults : AddMedicine(medicine)
    \/ AddAdditionalCharge(<< "f", "e", "e" >>, << "2", "0" >>)
    \/ SaveConsultation
    \/ \E id \in ConsultationIds : ConsultationCreated(id)
    \/ PrescriptionCreated
    \/ RegistrationCompleted
    \/ \E i \in 0..(MaxNotifications - 1) : NotificationExpire(i)

SpecChart == Init /\ [][NextChart]_vars

\* the allergy warning
NextAllergy ==
    \/ FetchQueueOk
    \/ \E patient \in QueuePatients : SelectPatient(patient)
    \/ \E medicine \in MedicineResults : AddMedicine(medicine)
    \/ \E index \in 0..(MaxItems - 1) : RemoveMedicine(index)
    \/ \E method \in DispensingMethods : SetDispensingMethod(method)
    \/ DismissAllergyWarning
    \/ \E i \in 0..(MaxNotifications - 1) : NotificationExpire(i)

SpecAllergy == Init /\ [][NextAllergy]_vars

\* the queue store
NextQueue ==
    \/ \E item \in QueueItems : AddToQueue(item)
    \/ \E id \in 1..2 : RemoveFromQueue(id)
    \/ \E id \in 1..2, updates \in QueueUpdates : UpdateQueueItem(id, updates)

SpecQueue == Init /\ [][NextQueue]_vars

\* the session: what logout and navigation leave in the stores
NextSession ==
    \/ FetchQueueOk
    \/ \E patient \in QueuePatients : SelectPatient(patient)
    \/ \E patientId \in historyFetches : HistoryFetched(patientId)
    \/ DismissAllergyWarning
    \/ Logout
    \/ \E href \in Pages : LeaveConsultationPage(href)
    \/ EnterConsultationPage

SpecSession == Init /\ [][NextSession]_vars

\* the api instance and the tokens
NextAuth ==
    \/ \E r \in RequestIds : SendRequest(r)
    \/ \E r \in RequestIds : ResponseOk(r)
    \/ \E r \in RequestIds, status \in ErrorStatuses : ResponseError(r, status)
    \/ \E r \in RequestIds, access \in AccessTokens : RefreshOk(r, access)
    \/ \E r \in RequestIds : RefreshFailed(r)
    \/ Logout

SpecAuth == Init /\ [][NextAuth]_vars

\* what selecting a patient does to the work in progress
NextSelect ==
    \/ FetchQueueOk
    \/ FetchExternalPharmaciesOk
    \/ \E patient \in QueuePatients : SelectPatient(patient)
    \/ \E medicine \in MedicineResults : AddMedicine(medicine)
    \/ \E method \in DispensingMethods : SetDispensingMethod(method)
    \/ \E value \in 0..Len(Pharmacies) : SetSelectedPharmacy(value)
    \/ AddAdditionalCharge(<< "f", "e", "e" >>, << "2", "0" >>)
    \/ \E text \in FormInputs : SetConsultationForm(text)
    \/ \E i \in 0..(MaxNotifications - 1) : NotificationExpire(i)

SpecSelect == Init /\ [][NextSelect]_vars

\* the history panel
NextHistory ==
    \/ RefreshQueue
    \/ FetchQueueOk
    \/ \E patient \in QueuePatients : SelectPatient(patient)
    \/ \E patientId \in historyFetches : HistoryFetched(patientId)
    \/ \E patientId \in historyFetches : HistoryFailed(patientId)
    \/ \E text \in FormInputs : SetConsultationForm(text)
    \/ DismissAllergyWarning

SpecHistory == Init /\ [][NextHistory]_vars

\* the two copies of the tokens
NextTokens ==
    \/ \E r \in RequestIds : SendRequest(r)
    \/ \E r \in RequestIds : ResponseOk(r)
    \/ \E r \in RequestIds, status \in ErrorStatuses : ResponseError(r, status)
    \/ \E r \in RequestIds, access \in AccessTokens : RefreshOk(r, access)
    \/ \E r \in RequestIds : RefreshFailed(r)
    \/ \E access \in AccessTokens, refresh \in AccessTokens :
           SetTokens(access, refresh)
    \/ Logout

SpecTokens == Init /\ [][NextTokens]_vars

\* maskPhone on every phone number
NextMask ==
    \E phone \in Phones : MaskPhone(phone)

SpecMask == Init /\ [][NextMask]_vars

\* the payment modal of the billing page
NextBilling ==
    \/ \E href \in Pages : LeaveConsultationPage(href)
    \/ EnterConsultationPage
    \/ BillsFetched
    \/ BillsFetchFailed
    \/ \E i \in 1..Len(ServerBills) : OpenPaymentModal(ServerBills[i])
    \/ \E text \in PaymentInputs : SetPaymentAmount(text)
    \/ ClosePaymentModal
    \/ HandlePayment
    \/ PaymentOk
    \/ PaymentFailed
    \/ \E i \in 0..(MaxNotifications - 1) : NotificationExpire(i)

SpecBilling == Init /\ [][NextBilling]_vars

(***************************************************************************)
(* Properties                                                              *)
(***************************************************************************)
LastNotification == notifications[Len(notifications)]

\* the frame of a handler that touches only the list and the notifications
OnlyListAndNotifications == UNCHANGED << storeVars, queueVars, saving, feeVars, save >>

\* C1: in every reachable state the line-item list holds at most one line
\* item per medicine id.
C1_UniqueMedicineIds ==
    \A i, j \in 1..Len(prescriptionItems) :
        prescriptionItems[i].medicine_id = prescriptionItems[j].medicine_id
            => i = j

\* C2: addMedicine with a medicine whose id is already in the list leaves the
\* list as it is and only appends a warning notification.
C2_DuplicateAddOnlyWarns ==
    [][\A medicine \in MedicineResults :
          (AddMedicine(medicine) /\ HasMedicine(prescriptionItems, medicine.id))
              => /\ prescriptionItems' = prescriptionItems
                 /\ notifications' = Append(notifications, [type |-> "warning"])
                 /\ OnlyListAndNotifications]_vars

C2_Witness ==
    /\ lastOp = "addMedicine"
    /\ Len(prescriptionItems) = 2
    /\ notifications # << >>
    /\ LastNotification.type = "warning"

\* C3: addMedicine with a medicine whose stock is <= 0 leaves the list as it
\* is and appends a notification while the dispensing method is internal;
\* with an external method the medicine, if not yet in the list, is appended
\* and no notification is raised.
C3_StockCheckOnlyInternal ==
    [][\A medicine \in MedicineResults :
          (AddMedicine(medicine) /\ medicine.current_stock <= 0)
              => IF dispensingMethod = "internal"
                 THEN /\ prescriptionItems' = prescriptionItems
                      /\ Len(notifications') = Len(notifications) + 1
                      /\ notifications'[Len(notifications')].type =
                             IF HasMedicine(prescriptionItems, medicine.id)
                             THEN "warning" ELSE "error"
                 ELSE ~HasMedicine(prescriptionItems, medicine.id)
                          => /\ Len(prescriptionItems') = Len(prescriptionItems) + 1
                             /\ HasMedicine(prescriptionItems', medicine.id)
                             /\ notifications' = notifications]_vars

\* a stock rejection was notified under internal dispensing, and the same
\* medicine was then added under an external method.
C3_Witness ==
    /\ lastOp = "addMedicine"
    /\ dispensingMethod # "internal"
    /\ \E i \in 1..Len(prescriptionItems) :
           /\ prescriptionItems[i].medicine_id = 2
           /\ prescriptionItems[i].dosage = 1
    /\ notifications # << >>
    /\ LastNotification.type = "error"

\* the unit price the page shows for a medicine of the search results
ListedPrice(medicine) == IF medicine.id = 1 THEN 10 ELSE 0

\* addMedicine does not reject: not a duplicate, and in stock or external
Accepted(medicine) ==
    /\ ~HasMedicine(prescriptionItems, medicine.id)
    /\ ~(dispensingMethod = "internal" /\ medicine.current_stock <= 0)

\* C4: an addMedicine call that is not rejected appends exactly one item at
\* the end, with dosage 1 and subtotal = unit price, and leaves the items
\* before it as they were.
C4_AcceptedAddAppendsOne ==
    [][\A medicine \in MedicineResults :
          (AddMedicine(medicine) /\ Accepted(medicine))
              => LET n == Len(prescriptionItems)
                     new == prescriptionItems'[n + 1]
                 IN  /\ Len(prescriptionItems') = n + 1
                     /\ SubSeq(prescriptionItems', 1, n) = prescriptionItems
                     /\ new.medicine_id = medicine.id
                     /\ new.dosage = 1
                     /\ new.unit_price = ListedPrice(medicine)
                     /\ new.subtotal = new.unit_price]_vars

C4_Witness ==
    /\ lastOp = "addMedicine"
    /\ Len(prescriptionItems) = 2
    /\ prescriptionItems[2].medicine_id = 1
    /\ prescriptionItems[2].dosage = 1
    /\ prescriptionItems[2].subtotal = 10

SubtotalsConsistent ==
    \A i \in 1..Len(prescriptionItems) :
        prescriptionItems[i].subtotal =
            prescriptionItems[i].dosage * prescriptionItems[i].unit_price

\* C5: after an updateDosage call every line item satisfies
\* subtotal = dosage * unit_price, and the call changes only the dosage and
\* the subtotal of the item at its index.
C5_UpdateDosageKeepsSubtotals ==
    [][\A index \in 0..(MaxItems - 1), text \in DosageInputs :
          UpdateDosage(index, text)
              => /\ SubtotalsConsistent'
                 /\ Len(prescriptionItems') = Len(prescriptionItems)
                 /\ \A j \in 1..Len(prescriptionItems) :
                        IF j = index + 1
                        THEN /\ prescriptionItems'[j].dosage =
                                    (IF text = << "2" >> THEN 2 ELSE 0)
                             /\ prescriptionItems'[j].medicine_id =
                                    prescriptionItems[j].medicine_id
                             /\ prescriptionItems'[j].unit_price =
                                    prescriptionItems[j].unit_price
                        ELSE prescriptionItems'[j] = prescriptionItems[j]
                 /\ UNCHANGED << storeVars, notifications, queueVars, saving,
                                 feeVars, save >>]_vars

C5_Witness ==
    /\ lastOp = "updateDosage"
    /\ Len(prescriptionItems) = 2
    /\ prescriptionItems[2].unit_price = 10
    /\ prescriptionItems[2].dosage = 2
    /\ prescriptionItems[2].subtotal = 20
    /\ prescriptionItems[1].dosage = 0

RECURSIVE SumOf(_, _)
\* the sum of f[1] .. f[n], NaN if one of them is NaN
SumOf(f, n) ==
    IF n = 0 THEN Num(0)
    ELSE LET rest == SumOf(f, n - 1)
         IN  IF rest.nan \/ f[n].nan THEN NaN ELSE Num(rest.val + f[n].val)

\* C7: in every state the total is the sum of the line-item subtotals, the
\* additional-charge amounts, the processing fee and the delivery fee of the
\* current state.
C7_TotalIsTheSum ==
    LET subtotals == [i \in 1..Len(prescriptionItems) |->
                         Num(prescriptionItems[i].subtotal)]
        amounts == [i \in 1..Len(additionalCharges) |->
                       additionalCharges[i].amount]
        items == SumOf(subtotals, Len(prescriptionItems))
        charges == SumOf(amounts, Len(additionalCharges))
    IN  /\ totalAmount.nan = (items.nan \/ charges.nan)
        /\ ~totalAmount.nan =>
               totalAmount.val =
                   items.val + charges.val + processingFee + deliveryFee
        /\ ( /\ Len(prescriptionItems) = 1
             /\ prescriptionItems[1].dosage = 2
             /\ prescriptionItems[1].unit_price = 10
             /\ additionalCharges = << [amount |-> Num(20)] >> )
           => /\ dispensingMethod = "internal"
                    => totalAmount = Num(20 + 20)
              /\ (dispensingMethod = "external_decoction" /\ selectedPharmacy = 1)
                    => totalAmount = Num(20 + 20 + 15 + 25)

C7_Witness ==
    /\ Len(prescriptionItems) = 1
    /\ prescriptionItems[1].dosage = 2
    /\ prescriptionItems[1].unit_price = 10
    /\ additionalCharges = << [amount |-> Num(20)] >>
    /\ dispensingMethod = "external_decoction"
    /\ selectedPharmacy = 1
    /\ totalAmount = Num(80)

\* the fees configured for a pharmacy id
ConfiguredFees(id) ==
    IF id = 1 THEN [processing_fee |-> 15, delivery_fee |-> 25]
    ELSE [processing_fee |-> 0, delivery_fee |-> 30]

\* C8: the processing fee and the delivery fee are nonzero only when the
\* dispensing method is not internal and a pharmacy is selected, and then
\* they are the fees configured for that pharmacy; with the internal method
\* both are zero whatever pharmacy was selected before.
C8_FeesOnlyExternalWithPharmacy ==
    /\ (processingFee # 0 \/ deliveryFee # 0)
           => (dispensingMethod # "internal" /\ selectedPharmacy # NULL)
    /\ (dispensingMethod # "internal" /\ selectedPharmacy # NULL)
           => /\ processingFee = ConfiguredFees(selectedPharmacy).processing_fee
              /\ deliveryFee = ConfiguredFees(selectedPharmacy).delivery_fee
    /\ dispensingMethod = "internal" => (processingFee = 0 /\ deliveryFee = 0)

\* internal dispensing chosen while the pharmacy selected earlier is kept
C8_Witness ==
    /\ lastOp = "setDispensingMethod"
    /\ dispensingMethod = "internal"
    /\ selectedPharmacy = 1
    /\ processingFee = 0
    /\ deliveryFee = 0

\* C9: saveConsultation called while the current registration id is null
\* issues no request, appends one error notification and leaves the saving
\* flag unset.
C9_SaveWithoutRegistration ==
    [][(SaveConsultation /\ currentRegistrationId = NULL)
          => /\ save' = save
             /\ save.pc = "idle"
             /\ queueFetches' = queueFetches
             /\ notifications' = Append(notifications, [type |-> "error"])
             /\ saving = FALSE
             /\ saving' = FALSE
             /\ UNCHANGED << storeVars, queue, completed, prescriptionItems,
                             feeVars >>]_vars

C9_Witness ==
    /\ lastOp = "saveConsultation"
    /\ currentRegistrationId = NULL
    /\ save.pc = "idle"
    /\ ~saving
    /\ notifications # << >>
    /\ LastNotification.type = "error"

\* C10: a save sequence started with a registration id and an empty
\* line-item list issues consultation create, then registration complete,
\* and nothing else; it never issues prescription create.
C10_EmptyListSkipsPrescription ==
    (save.pc # "idle" /\ save.nItems = 0)
        => /\ save.registration # NULL
           /\ save.pc # "prescription"
           /\ \/ save.pc = "consultation"
                 /\ save.calls = << "consultation_create" >>
              \/ save.pc = "complete"
                 /\ save.calls = << "consultation_create",
                                    "registration_complete" >>

\* the second and last request of such a sequence is in flight, while the
\* list has meanwhile received an item
C10_Witness ==
    /\ save.pc = "complete"
    /\ save.nItems = 0
    /\ save.calls = << "consultation_create", "registration_complete" >>
    /\ prescriptionItems # << >>

\* the requests of a step and of the steps before it
CallsUpTo(pc, nItems) ==
    CASE pc = "idle" -> << >>
      [] pc = "consultation" -> << "consultation_create" >>
      [] pc = "prescription" -> << "consultation_create", "prescription_create" >>
      [] pc = "complete" ->
             IF nItems > 0
             THEN << "consultation_create", "prescription_create",
                     "registration_complete" >>
             ELSE << "consultation_create", "registration_complete" >>

\* C11: the requests of a save sequence are issued in the order consultation
\* create, prescription create (only with a non-empty list, and carrying the
\* consultation id that the first request returned), registration complete;
\* each request is issued only when all the requests before it succeeded.
C11_CallsInOrder ==
    /\ save.calls = CallsUpTo(save.pc, save.nItems)
    /\ save.pc = "prescription" => save.nItems > 0
    /\ save.pc # "idle" =>
          save.succeeded = SubSeq(save.calls, 1, Len(save.calls) - 1)
    /\ save.pc \in {"prescription", "complete"} =>
          save.consultation \in ConsultationIds
    /\ (save.pc \in {"prescription", "complete"} /\ save.nItems > 0) =>
          save.payload.consultation = save.consultation
    /\ save.nItems = 0 => save.payload = NoPayload

\* the third request of a sequence with a line item is in flight; the
\* prescription request carried the id 102 that consultation create returned
C11_Witness ==
    /\ save.pc = "complete"
    /\ save.nItems > 0
    /\ save.calls = << "consultation_create", "prescription_create",
                       "registration_complete" >>
    /\ save.consultation = 102
    /\ save.payload.consultation = 102

\* C12: when a request of the sequence fails no further request is issued
\* and the failed one is not sent again: the sequence is over, and a request
\* is only ever issued by a click on save or on the success of the request
\* before it.
C12_FailureStopsSequence ==
    [][/\ SaveStepFailed => (save' = SaveIdle /\ UNCHANGED << completed, consulted >>)
       /\ (save'.calls # save.calls /\ save'.calls # << >>)
             => \/ /\ SaveConsultation
                   /\ save.pc = "idle"
                   /\ save'.calls = << "consultation_create" >>
                \/ /\ lastOp' \in {"consultationCreated", "prescriptionCreated"}
                   /\ Len(save'.calls) = Len(save.calls) + 1
                   /\ save'.succeeded = save.calls]_vars

\* a request failed after consultation create had succeeded for a
\* registration that is not completed: nothing is in flight any more
C12_Witness ==
    /\ lastOp = "saveStepFailed"
    /\ save = SaveIdle
    /\ ~saving
    /\ consulted # {}
    /\ completed = {}

\* what the doctor entered for the visit, and the selection of the store
VisitState ==
    << prescriptionItems, additionalCharges, consultationForm, currentPatient,
       currentRegistrationId >>

\* C13: no step of a save sequence that ends in a failure changes the line
\* items, the additional charges, the consultation form, the current patient
\* or the current registration id; the failure itself appends exactly one
\* error notification and resets the saving flag.
C13_FailedSaveChangesNothing ==
    [][/\ SaveStepFailed
             => /\ UNCHANGED VisitState
                /\ notifications' = Append(notifications, [type |-> "error"])
                /\ saving
                /\ saving' = FALSE
       /\ (SaveConsultation /\ currentRegistrationId # NULL)
             => UNCHANGED << VisitState, notifications >>
       /\ (PrescriptionCreated \/ \E id \in ConsultationIds : ConsultationCreated(id))
             => UNCHANGED << VisitState, notifications, saving >>]_vars

\* a save of a visit with a line item, an additional charge and a filled
\* form has just failed: all of it is still there
C13_Witness ==
    /\ lastOp = "saveStepFailed"
    /\ ~saving
    /\ currentRegistrationId # NULL
    /\ currentPatient # NoPatient
    /\ prescriptionItems # << >>
    /\ additionalCharges # << >>
    /\ consultationForm # BlankForm
    /\ LastNotification.type = "error"

\* C14: the success of the last request of a save sequence leaves the
\* current patient and the current registration id null and the line items,
\* the additional charges and the history records empty, and issues one
\* queue fetch.
C14_SuccessClears ==
    [][RegistrationCompleted
          => /\ currentPatient' = NoPatient
             /\ currentRegistrationId' = NULL
             /\ prescriptionItems' = << >>
             /\ additionalCharges' = << >>
             /\ historyRecords' = << >>
             /\ queueFetches' = queueFetches + 1
             /\ ~saving'
             /\ LastNotification'.type = "success"]_vars

\* a save has just succeeded for registration 1, whose patient has history
\* on record: the page holds none of it, and the queue is being fetched
C14_Witness ==
    /\ lastOp = "registrationCompleted"
    /\ 1 \in completed
    /\ historyFetches = {}
    /\ currentPatient = NoPatient
    /\ currentRegistrationId = NULL
    /\ prescriptionItems = << >>
    /\ additionalCharges = << >>
    /\ historyRecords = << >>
    /\ queueFetches = 1

\* C15: consultation create never succeeds for a registration that already
\* has a consultation record.
C15_AtMostOneConsultation ==
    [][\A id \in ConsultationIds :
           ConsultationCreated(id) => save.registration \notin consulted]_vars

\* C16: a request is sent at most twice and at most one refresh call is made
\* for it, the refresh before the second sending; a 401 answered to the
\* second sending is rejected to the caller with no further refresh or
\* sending, so the handling of a request ends.
C16_RefreshOncePerRequest ==
    [][\A r \in RequestIds :
          /\ requests'[r].sends <= 2
          /\ requests'[r].refreshes <= 1
          /\ requests'[r].sends = 2
                => (requests'[r].refreshes = 1 /\ requests'[r]._retry)
          /\ requests'[r].pc = "refreshing"
                => (requests'[r].sends = 1 /\ requests'[r].refreshes = 1)
          /\ (ResponseError(r, 401) /\ requests[r].sends = 2)
                => /\ requests'[r].pc = "done"
                   /\ requests'[r].result = "retry error"
                   /\ requests'[r].status = 401
                   /\ requests'[r].sends = 2
                   /\ requests'[r].refreshes = 1
                   /\ UNCHANGED << localStorage, location >>]_vars

\* the second sending of a request was answered 401 and its caller has
\* received that error
C16_Witness ==
    \E r \in RequestIds :
        /\ requests[r].pc = "done"
        /\ requests[r].result = "retry error"
        /\ requests[r].status = 401
        /\ requests[r].sends = 2
        /\ requests[r].refreshes = 1

\* C17: when the refresh call made for a request succeeds, the access token
\* it returned is stored and the request is sent a second and last time with
\* that token in its Authorization header; the response or error of that
\* sending is what the caller receives.
C17_RefreshOkRetriesWithNewToken ==
    [][\A r \in RequestIds :
          /\ \A access \in AccessTokens :
                RefreshOk(r, access)
                   => /\ localStorage'.access_token = access
                      /\ localStorage'.refresh_token = localStorage.refresh_token
                      /\ requests'[r].pc = "sent"
                      /\ requests'[r].Authorization = access
                      /\ requests[r].sends = 1
                      /\ requests'[r].sends = 2
                      /\ location' = location
          /\ (ResponseOk(r) /\ requests[r].sends = 2)
                => /\ requests'[r].pc = "done"
                   /\ requests'[r].result = "retry response"
                   /\ requests'[r].status = 200
          /\ \A status \in ErrorStatuses :
                (ResponseError(r, status) /\ requests[r].sends = 2)
                   => /\ requests'[r].pc = "done"
                      /\ requests'[r].result = "retry error"
                      /\ requests'[r].status = status]_vars

\* a request was sent again with the token 3 that its refresh call returned,
\* token 3 is the stored one, and the caller has received the response
C17_Witness ==
    \E r \in RequestIds :
        /\ requests[r].pc = "done"
        /\ requests[r].result = "retry response"
        /\ requests[r].Authorization = 3
        /\ localStorage.access_token = 3
        /\ requests[r].sends = 2

C19_NoSingleFlightGuard ==
    [][\A r \in RequestIds :
          (/\ ResponseError(r, 401)
           /\ requests[r].sends = 1
           /\ localStorage.refresh_token # NULL)
             => /\ requests'[r].pc = "refreshing"
                /\ requests'[r].refreshes = 1]_vars

\* the refresh call of one request failed and removed the tokens, then the
\* refresh call of another request, in flight since before, succeeded and
\* stored a new access token
C19_Witness ==
    /\ lastOp = "refreshOk"
    /\ location = "/login"
    /\ localStorage.access_token \in AccessTokens
    /\ localStorage.refresh_token = NULL
    /\ \E r1, r2 \in RequestIds :
          /\ r1 # r2
          /\ requests[r1].refreshes = 1
          /\ requests[r1].result = "error"
          /\ requests[r2].refreshes = 1
          /\ requests[r2].sends = 2

NamedInAllergies(medicine) == currentPatient.id = 11 /\ medicine.id = 1

\* C21: an addMedicine call that is not rejected, for a medicine whose name
\* the current patient's allergy text contains whatever the case of the
\* letters, opens the allergy warning with that medicine's message and still
\* appends the item; a rejected call leaves the allergy warning as it was.
C21_AllergyWarnsAndAppends ==
    [][\A medicine \in MedicineResults :
          AddMedicine(medicine)
             => IF Accepted(medicine)
                THEN /\ Len(prescriptionItems') = Len(prescriptionItems) + 1
                     /\ prescriptionItems'[Len(prescriptionItems')].medicine_id
                            = medicine.id
                     /\ IF NamedInAllergies(medicine)
                        THEN /\ allergy'.showAllergyWarning
                             /\ allergy'.allergyMessage = << "!" >> \o medicine.name
                        ELSE allergy' = allergy
                ELSE /\ allergy' = allergy
                     /\ prescriptionItems' = prescriptionItems]_vars

\* medicine 1 was added for patient 11: the warning is open with the message
\* of that medicine and the item is in the list
C21_Witness ==
    /\ lastOp = "addMedicine"
    /\ currentPatient.id = 11
    /\ allergy.showAllergyWarning
    /\ allergy.allergyMessage = << "!", "A", "b" >>
    /\ prescriptionItems # << >>
    /\ prescriptionItems[Len(prescriptionItems)].medicine_id = 1

\* the items of a list whose id is not the given one, in the order of the list
RECURSIVE Others(_, _)
Others(list, id) ==
    IF list = << >> THEN << >>
    ELSE IF Head(list).id = id THEN Others(Tail(list), id)
    ELSE << Head(list) >> \o Others(Tail(list), id)

\* C22: addToQueue puts the item at the end of the queue and keeps what was
\* there; removeFromQueue(id) leaves the items with another id, all of them
\* and in their order; updateQueueItem(id, updates) keeps the length, leaves
\* the items with another id as they were, gives the items with the id the
\* values of the patch in the patched fields and leaves their other fields,
\* and changes nothing when no item has the id.
C22_QueueStoreKeepsOrder ==
    [][/\ \A item \in QueueItems :
             AddToQueue(item)
                => /\ Len(storeQueue') = Len(storeQueue) + 1
                   /\ SubSeq(storeQueue', 1, Len(storeQueue)) = storeQueue
                   /\ storeQueue'[Len(storeQueue')] = item
       /\ \A id \in 1..2 :
             RemoveFromQueue(id) => storeQueue' = Others(storeQueue, id)
       /\ \A id \in 1..2, updates \in QueueUpdates :
             UpdateQueueItem(id, updates)
                => /\ Len(storeQueue') = Len(storeQueue)
                   /\ \A i \in 1..Len(storeQueue) :
                         IF storeQueue[i].id = id
                         THEN \A f \in {"id", "status"} :
                                 storeQueue'[i][f] =
                                     IF f \in DOMAIN updates THEN updates[f]
                                     ELSE storeQueue[i][f]
                         ELSE storeQueue'[i] = storeQueue[i]
                   /\ (\A i \in 1..Len(storeQueue) : storeQueue[i].id # id)
                         => storeQueue' = storeQueue]_vars

\* removeFromQueue has just run and left a queue of one item, whose id is
\* not the one removed
C22_Witness ==
    /\ lastOp = "removeFromQueue"
    /\ Len(storeQueue) = 1
    /\ storeQueue[1].id = 2

\* C23: logout, and leaving the consultation page, leave no current patient
\* and no current registration id in the consultation store.  (The store's
\* current consultation id is never set by any code and stays null.)
C23_CopiesDiscarded ==
    [][(Logout \/ \E href \in Pages : LeaveConsultationPage(href))
          => (currentPatient' = NoPatient /\ currentRegistrationId' = NULL)]_vars


\* The bill selected is bill 1, with 10 left to pay, and the amount box holds
\* a number above 0 and not above 10.
Payable ==
    /\ billing.selectedBill.id = 1
    /\ billing.paymentAmount \in { << "5" >>, << "1", "0" >> }

\* The request a call of handlePayment in a Payable state sends.
PayableRequest ==
    [bill |-> 1, amount |-> IF billing.paymentAmount = << "5" >> THEN 5 ELSE 10]

\* C24 as stated: handlePayment issues the pay request only when a bill is
\* selected and the amount entered is a number above 0 and not above the
\* balance due of that bill; in every other case it makes no call, adds an
\* error notification and leaves the payment modal and the selected bill as
\* they were.
C24_ErrorWheneverNotPaid ==
    [][lastOp' = "handlePayment" =>
        IF Payable
        THEN billing'.payments = Append(billing.payments, PayableRequest)
        ELSE /\ billing'.payments = billing.payments
             /\ notifications' = Append(notifications, [type |-> "error"])
             /\ billing'.showPaymentModal = billing.showPaymentModal
             /\ billing'.selectedBill = billing.selectedBill]_vars

\* C24: handlePayment issues the pay request only when a bill is selected
\* and the amount entered is a number above 0 and not above the balance due
\* of that bill.  With a bill selected and any other amount it makes no
\* call, adds one error notification and leaves the page state as it was;
\* with no bill selected it makes no call and adds no notification.
C24_PaymentValidated ==
    [][lastOp' = "handlePayment" =>
        IF Payable
        THEN /\ billing'.payments = Append(billing.payments, PayableRequest)
             /\ notifications' = notifications
        ELSE IF billing.selectedBill.id = NULL
        THEN /\ billing' = billing
             /\ notifications' = notifications
        ELSE /\ billing' = billing
             /\ notifications' = Append(notifications, [type |-> "error"])]_vars

\* handlePayment has refused 20 for bill 1, which has 10 left to pay: no
\* request is in flight, the error is shown and the modal is still open on
\* the bill.
C24_Witness ==
    /\ lastOp = "handlePayment"
    /\ billing.selectedBill.id = 1
    /\ billing.paymentAmount = << "2", "0" >>
    /\ billing.payments = << >>
    /\ billing.showPaymentModal
    /\ notifications = << [type |-> "error"] >>

C26_SaveLeavesNewPatient ==
    [][(/\ lastOp' \in {"consultationCreated", "prescriptionCreated",
                        "registrationCompleted", "saveStepFailed"}
        /\ currentRegistrationId # NULL
        /\ currentRegistrationId # save.registration)
       => UNCHANGED << currentPatient, currentRegistrationId,
                       prescriptionItems, additionalCharges >>]_vars

\* C27: whenever a patient is selected and no history fetch is in flight,
\* the history records on the page are records of the patient selected,
\* whatever the order in which the responses arrived.
C27_HistoryOfCurrentPatient ==
    (currentPatient.id # NULL /\ historyFetches = {}) =>
        \A i \in 1..Len(historyRecords) :
            historyRecords[i].patient = currentPatient.id

\* C28: whenever a processing fee or a delivery fee enters the total, the
\* pharmacy it is the fee of has the type of the current dispensing method:
\* pharmacy 1 decocts, pharmacy 2 supplies concentrates.
C28_FeesOfMatchingPharmacy ==
    (processingFee # 0 \/ deliveryFee # 0) =>
        \/ selectedPharmacy = 1 /\ dispensingMethod = "external_decoction"
        \/ selectedPharmacy = 2 /\ dispensingMethod = "external_concentrated"

\* C29: in every reachable state the access token of the auth store and the
\* access_token of localStorage are the same token, or both absent.
C29_TokenCopiesAgree ==
    auth.accessToken = localStorage.access_token

\* C30: for a phone number of four characters or more maskPhone returns,
\* without throwing, a string of the same length that keeps the first four
\* and the last three characters and has '*' everywhere else; a shorter
\* phone number is returned as it is.
C30_MaskPhoneKeepsEnds ==
    mask.called =>
        /\ ~mask.threw
        /\ Len(mask.value) = Len(mask.phone)
        /\ \A i \in 1..Len(mask.phone) :
               mask.value[i] =
                   IF \/ Len(mask.phone) < 4
                      \/ i <= 4
                      \/ i > Len(mask.phone) - 3
                   THEN mask.phone[i] ELSE "*"

====
